---- MODULE Spec2Model ----
(***************************************************************************)
(* Model of the knowledge-base component of the chatbot (mevzuat_kb.py):   *)
(* the crawler/indexer ensure_index over an SQLite store, the search       *)
(* reader, and the environment they run in (clock, web site, workers).     *)
(*                                                                         *)
(* Representation.  A URL is its string.  A text is the sequence of its    *)
(* lexemes (maximal non-blank runs); a token list and a chunk string are   *)
(* sequences of tokens (a chunk is its tokens joined by single blanks, and *)
(* tokens contain no blank).  The docs table is a function from the stored *)
(* URLs to rows, the chunks table is the sequence of its rows in rowid     *)
(* order (AUTOINCREMENT: a new row always goes last).                      *)
(***************************************************************************)
EXTENDS Integers, Sequences, FiniteSets, TLC

VARIABLES
    clock,      \* time.time(), in seconds
    net,        \* the web site: URL -> response
    docs,       \* committed docs table
    chunks,     \* committed chunks table
    tx,         \* per worker: the open write transaction of its connection
    pc,         \* per worker: position inside ensure_index
    loc,        \* per worker: the locals of ensure_index
    result,     \* per worker: how the last call returned to its caller
    requests,   \* per worker: HTTP GETs issued by the current/last call
    rows,       \* what the last search read from the chunks table
    hist,       \* summaries of the last two finished calls
    quiet,      \* calls begun since the site last changed (capped at 2)
    calls,      \* number of ensure_index calls begun
    changes,    \* number of site changes
    args,       \* the arguments the application passes to ensure_index
    ck,         \* the frame of a chunk_tokens call: arguments, locals, position
    kb,         \* the frame of a search / build_context call
    app,        \* ChatApp: the widgets' state and current_worker
    cw,         \* the ChatWorker threads started so far
    events,     \* signals emitted by worker threads, queued for the GUI thread
    completions \* the calls chat_with_gpt has received

indexVars == <<clock, net, docs, chunks, tx, pc, loc, result, requests, rows,
               hist, quiet, calls, changes, args>>

\* the state ensure_index and the table read of search never touch
nonIndexVars == <<ck, kb, app, cw, events, completions>>

vars == <<indexVars, nonIndexVars>>

-----------------------------------------------------------------------------
(* Bounds of the exploration *)

MaxCalls == 2
MaxChanges == 1
MaxTokens == 4      \* longest token list handed to chunk_tokens
MaxChunkSize == 4   \* largest chunk_size and overlap handed to chunk_tokens
MaxSends == 2       \* messages the user sends
MaxChats == 2       \* chats created while the window is open

-----------------------------------------------------------------------------
(* The configured site and the URLs of the exploration *)

SeedUrl == "https://mevzuat.emu.edu.tr/content-en.htm"
AllowedHost == "mevzuat.emu.edu.tr"

UrlA == "https://mevzuat.emu.edu.tr/a.htm"
UrlB == "https://mevzuat.emu.edu.tr/b.pdf"
UrlEvil == "https://evil.example.com/page.htm"
UrlFtp == "ftp://mevzuat.emu.edu.tr/c.htm"
UrlTxt == "https://mevzuat.emu.edu.tr/notes.txt"

Urls == {SeedUrl, UrlA, UrlB, UrlEvil, UrlFtp, UrlTxt}

\* urllib.parse.urlparse, on the URLs of the exploration
urlparse(u) ==
    CASE u = SeedUrl -> [scheme |-> "https", netloc |-> "mevzuat.emu.edu.tr", path |-> "/content-en.htm"]
      [] u = UrlA    -> [scheme |-> "https", netloc |-> "mevzuat.emu.edu.tr", path |-> "/a.htm"]
      [] u = UrlB    -> [scheme |-> "https", netloc |-> "mevzuat.emu.edu.tr", path |-> "/b.pdf"]
      [] u = UrlEvil -> [scheme |-> "https", netloc |-> "evil.example.com", path |-> "/page.htm"]
      [] u = UrlFtp  -> [scheme |-> "ftp", netloc |-> "mevzuat.emu.edu.tr", path |-> "/c.htm"]
      [] u = UrlTxt  -> [scheme |-> "https", netloc |-> "mevzuat.emu.edu.tr", path |-> "/notes.txt"]

\* the hrefs an anchor of the seed page may carry, as written in the page
Hrefs == {"", "a.htm", "/a.htm", "b.pdf", "content-en.htm", "notes.txt",
          "https://evil.example.com/page.htm", "ftp://mevzuat.emu.edu.tr/c.htm"}

\* urllib.parse.urljoin(SeedUrl, href)
urljoin(href) ==
    CASE href = "" -> SeedUrl
      [] href = "a.htm" -> UrlA
      [] href = "/a.htm" -> UrlA
      [] href = "b.pdf" -> UrlB
      [] href = "content-en.htm" -> SeedUrl
      [] href = "notes.txt" -> UrlTxt
      [] href = "https://evil.example.com/page.htm" -> UrlEvil
      [] href = "ftp://mevzuat.emu.edu.tr/c.htm" -> UrlFtp

\* full.lower().endswith((".htm", ".html", ".pdf"))
EndsWithPage(u) == u \in {SeedUrl, UrlA, UrlB, UrlEvil, UrlFtp}

\* url.split("/")[-1]
TitleOf(u) ==
    CASE u = SeedUrl -> "content-en.htm"
      [] u = UrlA    -> "a.htm"
      [] u = UrlB    -> "b.pdf"
      [] u = UrlEvil -> "page.htm"
      [] u = UrlFtp  -> "c.htm"
      [] u = UrlTxt  -> "notes.txt"

\* the URLs of the exploration in Python's string order
UrlOrder == <<UrlFtp, UrlEvil, UrlA, UrlB, SeedUrl, UrlTxt>>

\* sorted(S) for a set S of URLs
sorted(S) == SelectSeq(UrlOrder, LAMBDA u : u \in S)

-----------------------------------------------------------------------------
(* Pure functions of mevzuat_kb.py *)

Min(a, b) == IF a < b THEN a ELSE b
Max(a, b) == IF a > b THEN a ELSE b

\* Python's s[lo:hi] for integers lo, hi of either sign
PySlice(s, lo, hi) ==
    LET n == Len(s)
        norm(x) == IF x < 0 THEN Max(0, n + x) ELSE Min(x, n)
        a == norm(lo)
        b == norm(hi)
    IN  IF a < b THEN SubSeq(s, a + 1, b) ELSE << >>

\* _token_re.findall(normalize_text(lexeme)): the tokens of one lexeme
TokensOf(x) ==
    CASE x = "Fee" -> <<"fee">>
      [] x = "fee" -> <<"fee">>
      [] x = "schedule," -> <<"schedule">>
      [] x = "schedule" -> <<"schedule">>
      [] x = "registration" -> <<"registration">>
      [] x = "Graduation" -> <<"graduation">>
      [] x = "graduation" -> <<"graduation">>
      [] x = "pre-requisites" -> <<"pre", "requisites">>
      [] x = "pre" -> <<"pre">>
      [] x = "requisites" -> <<"requisites">>
      [] x = "--" -> << >>
      [] x = "rule" -> <<"rule">>
      [] x = "exam" -> <<"exam">>
      [] x = "Credit;" -> <<"credit">>
      [] x = "credit" -> <<"credit">>
      [] x = "Summarize" -> <<"summarize">>
      [] x = "https://mevzuat.emu.edu.tr/a.htm"
            -> <<"https", "mevzuat", "emu", "edu", "tr", "a", "htm">>

\* tokenize: the tokens of the lexemes, in order (no token spans a blank)
RECURSIVE tokenize(_)
tokenize(s) ==
    IF Len(s) = 0 THEN << >>
    ELSE IF Len(s) = 1 THEN TokensOf(s[1])
    ELSE LET m == Len(s) \div 2
         IN  tokenize(SubSeq(s, 1, m)) \o tokenize(SubSeq(s, m + 1, Len(s)))

DefaultChunkSize == 450
DefaultOverlap == 80

RECURSIVE ChunkLoop(_, _, _, _, _)
ChunkLoop(tokens, i, chunk_size, step, out) ==
    IF i < Len(tokens)
    THEN LET chunk == PySlice(tokens, i, i + chunk_size)
         IN  IF chunk = << >> THEN out
             ELSE ChunkLoop(tokens, i + step, chunk_size, step, Append(out, chunk))
    ELSE out

chunk_tokens(tokens, chunk_size, overlap) ==
    ChunkLoop(tokens, 0, chunk_size, Max(1, chunk_size - overlap), << >>)

\* a plausible slip: the step is not clamped
step_unclamped(chunk_size, overlap) == chunk_size - overlap

\* step = max(1, chunk_size - overlap)
step_of(chunk_size, overlap) == Max(1, chunk_size - overlap)

-----------------------------------------------------------------------------
(* The web site *)

FeeText == <<"Fee", "schedule,", "--", "registration">>
GradText == <<"Graduation", "pre-requisites">>
RuleText == <<"rule", "fee", "rule">>

Failure == [ok |-> FALSE, text |-> << >>, hrefs |-> {}]
Page(text, hrefs) == [ok |-> TRUE, text |-> text, hrefs |-> hrefs]

SeedResponses == { Failure, Page(FeeText, Hrefs), Page(FeeText, {"b.pdf"}) }
PageResponsesA == { Failure, Page(FeeText, {}), Page(GradText, {}) }
PageResponsesB == { Failure, Page(RuleText, {}) }

ResponsesOf(u) ==
    CASE u = SeedUrl -> SeedResponses
      [] u = UrlA -> PageResponsesA
      [] u = UrlB -> PageResponsesB
      [] OTHER -> { Failure, Page(GradText, {}) }

-----------------------------------------------------------------------------
(* MevzuatKB helpers *)

\* a plausible slip: only the scheme is tested
_is_allowed_any_host(u) == urlparse(u).scheme \in {"http", "https"}

_is_allowed(u) ==
    LET p == urlparse(u)
    IN  p.scheme \in {"http", "https"} /\ p.netloc = AllowedHost

_extract_links(hrefs) ==
    sorted({ urljoin(h) : h \in { x \in hrefs : x # "" /\ _is_allowed(urljoin(x))
                                                 /\ EndsWithPage(urljoin(x)) } })

\* a plausible slip: the links are truncated before the seed is put in front
discovered_truncate_links(hrefs, max_pages) ==
    <<SeedUrl>> \o PySlice(_extract_links(hrefs), 0, max_pages)

\* discovered = ([seed_url] + _extract_links(...))[:max_pages]
discovered_of(hrefs, max_pages) ==
    PySlice(<<SeedUrl>> \o _extract_links(hrefs), 0, max_pages)

Workers == {"w1", "w2"}
RefreshDaysChoices == {0, 1}
MaxPagesChoices == {0, 2, 600}

NoTx == [open |-> FALSE, docs |-> << >>, chunks |-> << >>]
NoLoc == [now |-> 0, refresh_days |-> 0, refresh_seconds |-> 0, max_pages |-> 0,
          discovered |-> << >>, i |-> 1, text |-> << >>]

\* what the connection of worker p reads: its own uncommitted writes, else
\* the committed tables
View(p) == IF tx[p].open THEN tx[p] ELSE [open |-> FALSE, docs |-> docs, chunks |-> chunks]

\* a store without a write lock
LockFree_absent(p) == TRUE

\* SQLite admits one write transaction at a time
LockFree(p) == \A q \in Workers \ {p} : ~tx[q].open

CurUrl(p) == loc[p].discovered[loc[p].i]

\* plausible slips of the freshness test: the window taken in days instead of
\* seconds; the test left out; the boundary included
IsFresh_days(p, u) ==
    /\ u \in DOMAIN View(p).docs
    /\ (loc[p].now - View(p).docs[u].fetched_at) < loc[p].refresh_days

IsFresh_never(p, u) == FALSE

IsFresh_inclusive(p, u) ==
    /\ u \in DOMAIN View(p).docs
    /\ (loc[p].now - View(p).docs[u].fetched_at) <= loc[p].refresh_seconds

\* the row test of the freshness check
IsFresh(p, u) ==
    /\ u \in DOMAIN View(p).docs
    /\ (loc[p].now - View(p).docs[u].fetched_at) < loc[p].refresh_seconds

Summary(p, res, d, c, reqs) ==
    [worker |-> p, result |-> res, docs |-> d, chunks |-> c, now |-> loc[p].now,
     refresh_days |-> loc[p].refresh_days, max_pages |-> loc[p].max_pages,
     discovered |-> loc[p].discovered, requests |-> reqs]

Record(h, s) == IF Len(h) < 2 THEN Append(h, s) ELSE <<h[2], s>>

\* no chunk_tokens call, no search call, the chat window as constructed
NoChunkCall == [pc |-> "none", tokens |-> << >>, chunk_size |-> 0, overlap |-> 0,
                step |-> 0, n |-> 0, i |-> 0, out |-> << >>]
NoKbCall == [pc |-> "none", query |-> << >>, k |-> 0, hits |-> << >>, context |-> << >>]
\* create_new_chat: a chat without summary and messages
NewChat == [summary |-> << >>, messages |-> << >>]

\* objs holds the chat objects made so far (a chat is known by its place in
\* objs), chats the list self.chats, saved the history file
NoChat == [disabled |-> FALSE, current_worker |-> 0, attached_file_path |-> "",
           objs |-> <<NewChat>>, active_chat |-> 1, chats |-> << >>, saved |-> << >>]

NonIndexIdle ==
    /\ ck = NoChunkCall
    /\ kb = NoKbCall
    /\ app = NoChat
    /\ cw = << >>
    /\ events = << >>
    /\ completions = << >>

-----------------------------------------------------------------------------
Init ==
    /\ NonIndexIdle
    /\ clock = 0
    /\ net \in { f \in [Urls -> UNION { ResponsesOf(u) : u \in Urls }] :
                   /\ f[SeedUrl] \in { Failure, Page(FeeText, Hrefs) }
                   /\ f[UrlA] = Page(FeeText, {})
                   /\ f[UrlB] \in PageResponsesB
                   /\ \A u \in Urls \ {SeedUrl, UrlA, UrlB} : f[u] = Page(GradText, {}) }
    /\ docs = << >>
    /\ chunks = << >>
    /\ tx = [p \in Workers |-> NoTx]
    /\ pc = [p \in Workers |-> "idle"]
    /\ loc = [p \in Workers |-> NoLoc]
    /\ result = [p \in Workers |-> "none"]
    /\ requests = [p \in Workers |-> << >>]
    /\ rows = << >>
    /\ hist = << >>
    /\ quiet = 0
    /\ calls = 0
    /\ changes = 0
    /\ args \in [refresh_days : RefreshDaysChoices, max_pages : MaxPagesChoices]

\* the time that may have passed since the clock was last read: a second,
\* a day
Elapsed == {1, 24 * 3600}

\* ensure_index is entered: the clock is read and the window computed
Begin(p) ==
    /\ pc[p] = "idle"
    /\ calls < MaxCalls
    /\ calls' = calls + 1
    /\ quiet' = Min(quiet + 1, 2)
    /\ \E d \in Elapsed : clock' = clock + d
    /\ loc' = [loc EXCEPT ![p] = [NoLoc EXCEPT !.now = clock',
                                               !.refresh_days = args.refresh_days,
                                               !.refresh_seconds = args.refresh_days * 24 * 3600,
                                               !.max_pages = args.max_pages]]
    /\ pc' = [pc EXCEPT ![p] = "seed"]
    /\ result' = [result EXCEPT ![p] = "running"]
    /\ requests' = [requests EXCEPT ![p] = << >>]
    /\ UNCHANGED <<net, docs, chunks, tx, rows, hist, changes, args, nonIndexVars>>

\* a plausible slip: the seed failure is swallowed and the seed alone crawled
SeedFail_swallowed(p) ==
    /\ pc[p] = "seed"
    /\ ~net[SeedUrl].ok
    /\ requests' = [requests EXCEPT ![p] = <<[url |-> SeedUrl, ok |-> FALSE]>>]
    /\ loc' = [loc EXCEPT ![p].discovered = <<SeedUrl>>, ![p].i = 1]
    /\ pc' = [pc EXCEPT ![p] = "loop"]
    /\ UNCHANGED <<clock, net, docs, chunks, tx, result, rows, hist, quiet, calls, changes, args, nonIndexVars>>

\* the seed GET fails: raise_for_status / requests.get raise out of ensure_index
SeedFail(p) ==
    /\ pc[p] = "seed"
    /\ ~net[SeedUrl].ok
    /\ LET reqs == <<[url |-> SeedUrl, ok |-> FALSE]>>
       IN  /\ requests' = [requests EXCEPT ![p] = reqs]
           /\ hist' = Record(hist, Summary(p, "seed_failed", docs, chunks, reqs))
    /\ result' = [result EXCEPT ![p] = "seed_failed"]
    /\ pc' = [pc EXCEPT ![p] = "idle"]
    /\ UNCHANGED <<clock, net, docs, chunks, tx, loc, rows, quiet, calls, changes, args, nonIndexVars>>

\* the seed GET succeeds: the candidate list is built and the store opened
SeedOk(p) ==
    /\ pc[p] = "seed"
    /\ net[SeedUrl].ok
    /\ requests' = [requests EXCEPT ![p] = <<[url |-> SeedUrl, ok |-> TRUE]>>]
    /\ loc' = [loc EXCEPT ![p].discovered =
                  discovered_of(net[SeedUrl].hrefs, loc[p].max_pages),
                          ![p].i = 1]
    /\ pc' = [pc EXCEPT ![p] = "loop"]
    /\ UNCHANGED <<clock, net, docs, chunks, tx, result, rows, hist, quiet, calls, changes, args, nonIndexVars>>

\* a candidate inside the refresh window: continue
SkipFresh(p) ==
    /\ pc[p] = "loop"
    /\ loc[p].i <= Len(loc[p].discovered)
    /\ IsFresh(p, CurUrl(p))
    /\ loc' = [loc EXCEPT ![p].i = @ + 1]
    /\ UNCHANGED <<clock, net, docs, chunks, tx, pc, result, requests, rows, hist,
                   quiet, calls, changes, args, nonIndexVars>>

\* a plausible slip: a failed page ends the loop (break instead of continue)
FetchFail_break(p) ==
    /\ pc[p] = "loop"
    /\ loc[p].i <= Len(loc[p].discovered)
    /\ ~IsFresh(p, CurUrl(p))
    /\ ~net[CurUrl(p)].ok
    /\ requests' = [requests EXCEPT ![p] = Append(@, [url |-> CurUrl(p), ok |-> FALSE])]
    /\ loc' = [loc EXCEPT ![p].i = Len(loc[p].discovered) + 1]
    /\ UNCHANGED <<clock, net, docs, chunks, tx, pc, result, rows, hist,
                   quiet, calls, changes, args, nonIndexVars>>

\* fetch_url_text raises: the exception is swallowed, continue
FetchFail(p) ==
    /\ pc[p] = "loop"
    /\ loc[p].i <= Len(loc[p].discovered)
    /\ ~IsFresh(p, CurUrl(p))
    /\ ~net[CurUrl(p)].ok
    /\ requests' = [requests EXCEPT ![p] = Append(@, [url |-> CurUrl(p), ok |-> FALSE])]
    /\ loc' = [loc EXCEPT ![p].i = @ + 1]
    /\ UNCHANGED <<clock, net, docs, chunks, tx, pc, result, rows, hist,
                   quiet, calls, changes, args, nonIndexVars>>

\* fetch_url_text returns the extracted text
FetchOk(p) ==
    /\ pc[p] = "loop"
    /\ loc[p].i <= Len(loc[p].discovered)
    /\ ~IsFresh(p, CurUrl(p))
    /\ net[CurUrl(p)].ok
    /\ requests' = [requests EXCEPT ![p] = Append(@, [url |-> CurUrl(p), ok |-> TRUE])]
    /\ loc' = [loc EXCEPT ![p].text = net[CurUrl(p)].text]
    /\ pc' = [pc EXCEPT ![p] = "upsert"]
    /\ UNCHANGED <<clock, net, docs, chunks, tx, result, rows, hist,
                   quiet, calls, changes, args, nonIndexVars>>

\* INSERT INTO docs ... ON CONFLICT(url) DO UPDATE; the first write of the
\* connection opens its transaction and takes the write lock
Upsert(p) ==
    /\ pc[p] = "upsert"
    /\ LockFree(p)
    /\ LET v == View(p)
           u == CurUrl(p)
           row == [title |-> TitleOf(u), fetched_at |-> loc[p].now, content |-> loc[p].text]
       IN  tx' = [tx EXCEPT ![p] =
                     [open |-> TRUE,
                      docs |-> [x \in DOMAIN v.docs \cup {u} |-> IF x = u THEN row ELSE v.docs[x]],
                      chunks |-> v.chunks]]
    /\ pc' = [pc EXCEPT ![p] = "delete"]
    /\ UNCHANGED <<clock, net, docs, chunks, loc, result, requests, rows, hist,
                   quiet, calls, changes, args, nonIndexVars>>

\* a plausible slip: the URL's old chunk rows are kept (incremental insert)
DeleteChunks_skip(p) ==
    /\ pc[p] = "delete"
    /\ LockFree(p)
    /\ tx' = tx
    /\ pc' = [pc EXCEPT ![p] = "insert"]
    /\ UNCHANGED <<clock, net, docs, chunks, loc, result, requests, rows, hist,
                   quiet, calls, changes, args, nonIndexVars>>

\* DELETE FROM chunks WHERE url=?
DeleteChunks(p) ==
    /\ pc[p] = "delete"
    /\ LockFree(p)
    /\ tx' = [tx EXCEPT ![p].chunks = SelectSeq(@, LAMBDA r : r.url # CurUrl(p))]
    /\ pc' = [pc EXCEPT ![p] = "insert"]
    /\ UNCHANGED <<clock, net, docs, chunks, loc, result, requests, rows, hist,
                   quiet, calls, changes, args, nonIndexVars>>

\* the rows built from chunk_tokens(tokenize(text))
NewRows(u, text) ==
    LET cs == chunk_tokens(tokenize(text), DefaultChunkSize, DefaultOverlap)
    IN  [k \in 1..Len(cs) |-> [url |-> u, title |-> TitleOf(u), chunk |-> cs[k],
                                chunk_norm |-> tokenize(cs[k])]]

\* executemany(INSERT INTO chunks ...), then the next candidate
InsertChunks(p) ==
    /\ pc[p] = "insert"
    /\ LockFree(p)
    /\ tx' = [tx EXCEPT ![p].chunks = @ \o NewRows(CurUrl(p), loc[p].text)]
    /\ loc' = [loc EXCEPT ![p].i = @ + 1]
    /\ pc' = [pc EXCEPT ![p] = "loop"]
    /\ UNCHANGED <<clock, net, docs, chunks, result, requests, rows, hist,
                   quiet, calls, changes, args, nonIndexVars>>

\* a write statement raises (disk error, or "database is locked" once the
\* busy timeout expires): the exception leaves ensure_index before commit and
\* the connection's uncommitted transaction is rolled back
StorageError(p) ==
    /\ pc[p] \in {"upsert", "delete", "insert"}
    /\ tx' = [tx EXCEPT ![p] = NoTx]
    /\ result' = [result EXCEPT ![p] = "storage_error"]
    /\ hist' = Record(hist, Summary(p, "storage_error", docs, chunks, requests[p]))
    /\ pc' = [pc EXCEPT ![p] = "idle"]
    /\ UNCHANGED <<clock, net, docs, chunks, loc, requests, rows, quiet, calls, changes, args, nonIndexVars>>

\* the loop is over: con.commit(); con.close()
Commit(p) ==
    /\ pc[p] = "loop"
    /\ loc[p].i > Len(loc[p].discovered)
    /\ docs' = View(p).docs
    /\ chunks' = View(p).chunks
    /\ tx' = [tx EXCEPT ![p] = NoTx]
    /\ result' = [result EXCEPT ![p] = "ok"]
    /\ hist' = Record(hist, Summary(p, "ok", docs', chunks', requests[p]))
    /\ pc' = [pc EXCEPT ![p] = "idle"]
    /\ UNCHANGED <<clock, net, loc, requests, rows, quiet, calls, changes, args, nonIndexVars>>

\* a store that lets a reader see a writer's uncommitted rows
Search_dirty ==
    /\ rows' = IF \E p \in Workers : tx[p].open
               THEN (CHOOSE t \in { tx[p] : p \in Workers } : t.open).chunks
               ELSE chunks
    /\ UNCHANGED <<clock, net, docs, chunks, tx, pc, loc, result, requests, hist,
                   quiet, calls, changes, args, nonIndexVars>>

\* search: SELECT url, title, chunk, chunk_norm FROM chunks, on a connection
\* of its own
Search ==
    /\ rows' = chunks
    /\ UNCHANGED <<clock, net, docs, chunks, tx, pc, loc, result, requests, hist,
                   quiet, calls, changes, args, nonIndexVars>>

\* worker p is about to request u
AboutToRequest(p, u) ==
    \/ pc[p] = "seed" /\ u = SeedUrl
    \/ /\ pc[p] = "loop" /\ loc[p].i <= Len(loc[p].discovered)
       /\ u = CurUrl(p) /\ ~IsFresh(p, u)

\* the site changes: one URL answers differently from now on.  A change shows
\* only in the next request of that URL, so it is taken right before one.
SiteChange ==
    /\ changes < MaxChanges
    /\ changes' = changes + 1
    /\ \E u \in {SeedUrl, UrlA, UrlB} : \E r \in ResponsesOf(u) :
          /\ \E p \in Workers : AboutToRequest(p, u)
          /\ r # net[u]
          /\ net' = [net EXCEPT ![u] = r]
    /\ quiet' = 0
    /\ UNCHANGED <<clock, docs, chunks, tx, pc, loc, result, requests, rows, hist,
                   calls, args, nonIndexVars>>

Step(p) ==
    \/ Begin(p)
    \/ SeedFail(p)
    \/ SeedOk(p)
    \/ SkipFresh(p)
    \/ FetchFail(p)
    \/ FetchOk(p)
    \/ Upsert(p)
    \/ DeleteChunks(p)
    \/ InsertChunks(p)
    \/ StorageError(p)
    \/ Commit(p)

\* one indexing worker (the application's KBInitWorker), searches, the world
Next ==
    \/ Step("w1")
    \/ Search
    \/ SiteChange

Spec == Init /\ [][Next]_vars

\* two overlapping ensure_index calls against the same store file
NextConc == \E p \in Workers : Step(p)

SpecConc == Init /\ [][NextConc]_vars

-----------------------------------------------------------------------------
(* chunk_tokens, statement by statement *)

\* no ensure_index call under way
IndexQuiet ==
    /\ clock = 0
    /\ net = [u \in Urls |-> Failure]
    /\ tx = [p \in Workers |-> NoTx]
    /\ pc = [p \in Workers |-> "idle"]
    /\ loc = [p \in Workers |-> NoLoc]
    /\ result = [p \in Workers |-> "none"]
    /\ requests = [p \in Workers |-> << >>]
    /\ rows = << >>
    /\ hist = << >>
    /\ quiet = 0
    /\ calls = 0
    /\ changes = 0
    /\ args = [refresh_days |-> 14, max_pages |-> 600]

\* the store as _init_db creates it, and no ensure_index call under way
IndexIdle ==
    /\ IndexQuiet
    /\ docs = << >>
    /\ chunks = << >>

TokenAlphabet == {"fee", "rule"}
TokenLists == UNION { [1..len -> TokenAlphabet] : len \in 0..MaxTokens }
ChunkSizeChoices == (0 - 2)..MaxChunkSize
OverlapChoices == (0 - 1)..MaxChunkSize

\* chunk_tokens is called with some token list, chunk_size and overlap
InitChunk ==
    /\ IndexIdle
    /\ kb = NoKbCall /\ app = NoChat /\ cw = << >> /\ events = << >>
    /\ completions = << >>
    /\ \E t \in TokenLists : \E cs \in ChunkSizeChoices : \E ov \in OverlapChoices :
          ck = [NoChunkCall EXCEPT !.pc = "call", !.tokens = t,
                                   !.chunk_size = cs, !.overlap = ov]

\* out = []; i = 0; step = max(1, chunk_size - overlap); n = len(tokens)
ChunkEnter ==
    /\ ck.pc = "call"
    /\ ck' = [ck EXCEPT !.out = << >>, !.i = 0,
                        !.step = step_of(ck.chunk_size, ck.overlap),
                        !.n = Len(ck.tokens), !.pc = "loop"]
    /\ UNCHANGED <<indexVars, kb, app, cw, events, completions>>

\* while i < n: the window is not empty: out.append(" ".join(chunk)); i += step
ChunkAppend ==
    /\ ck.pc = "loop"
    /\ ck.i < ck.n
    /\ LET chunk == PySlice(ck.tokens, ck.i, ck.i + ck.chunk_size)
       IN  /\ chunk # << >>
           /\ ck' = [ck EXCEPT !.out = Append(@, chunk), !.i = @ + ck.step]
    /\ UNCHANGED <<indexVars, kb, app, cw, events, completions>>

\* while i < n: the window is empty: break, return out
ChunkBreak ==
    /\ ck.pc = "loop"
    /\ ck.i < ck.n
    /\ PySlice(ck.tokens, ck.i, ck.i + ck.chunk_size) = << >>
    /\ ck' = [ck EXCEPT !.pc = "returned"]
    /\ UNCHANGED <<indexVars, kb, app, cw, events, completions>>

\* i >= n: the loop is left, return out
ChunkReturn ==
    /\ ck.pc = "loop"
    /\ ~(ck.i < ck.n)
    /\ ck' = [ck EXCEPT !.pc = "returned"]
    /\ UNCHANGED <<indexVars, kb, app, cw, events, completions>>

NextChunk ==
    \/ ChunkEnter
    \/ ChunkAppend
    \/ ChunkBreak
    \/ ChunkReturn

SpecChunk == InitChunk /\ [][NextChunk]_vars

\* the interpreter goes on executing the call until it returns
SpecChunkLive == InitChunk /\ [][NextChunk]_vars /\ WF_vars(NextChunk)

-----------------------------------------------------------------------------
(* search and build_context *)

DefaultK == 6

\* float(overlap) / ((nq ** 0.5) * (nc ** 0.5)) in IEEE double precision.  A
\* double d is written as the pair <<v \div 10^8, v % 10^8>> of v = d * 10^17
\* rounded to an integer, which keeps the order and the equality of the
\* doubles that occur (sets of 1..3 query tokens and 1..9 chunk tokens).
float_score(overlap, nq, nc) ==
    IF overlap = 0 THEN <<0, 0>>
    ELSE
        CASE <<overlap, nq, nc>> = <<1, 1, 1>> -> <<1000000000, 0>>
          [] <<overlap, nq, nc>> = <<1, 1, 2>> -> <<707106781, 18654746>>
          [] <<overlap, nq, nc>> = <<1, 1, 3>> -> <<577350269, 18962584>>
          [] <<overlap, nq, nc>> = <<1, 1, 4>> -> <<500000000, 0>>
          [] <<overlap, nq, nc>> = <<1, 1, 5>> -> <<447213595, 49995793>>
          [] <<overlap, nq, nc>> = <<1, 1, 6>> -> <<408248290, 46386307>>
          [] <<overlap, nq, nc>> = <<1, 1, 7>> -> <<377964473, 922720>>
          [] <<overlap, nq, nc>> = <<1, 1, 8>> -> <<353553390, 59327373>>
          [] <<overlap, nq, nc>> = <<1, 1, 9>> -> <<333333333, 33333331>>
          [] <<overlap, nq, nc>> = <<1, 2, 1>> -> <<707106781, 18654746>>
          [] <<overlap, nq, nc>> = <<1, 2, 2>> -> <<499999999, 99999989>>
          [] <<overlap, nq, nc>> = <<2, 2, 2>> -> <<999999999, 99999978>>
          [] <<overlap, nq, nc>> = <<1, 2, 3>> -> <<408248290, 46386296>>
          [] <<overlap, nq, nc>> = <<2, 2, 3>> -> <<816496580, 92772592>>
          [] <<overlap, nq, nc>> = <<1, 2, 4>> -> <<353553390, 59327373>>
          [] <<overlap, nq, nc>> = <<2, 2, 4>> -> <<707106781, 18654746>>
          [] <<overlap, nq, nc>> = <<1, 2, 5>> -> <<316227766, 1683794>>
          [] <<overlap, nq, nc>> = <<2, 2, 5>> -> <<632455532, 3367588>>
          [] <<overlap, nq, nc>> = <<1, 2, 6>> -> <<288675134, 59481292>>
          [] <<overlap, nq, nc>> = <<2, 2, 6>> -> <<577350269, 18962584>>
          [] <<overlap, nq, nc>> = <<1, 2, 7>> -> <<267261241, 91242434>>
          [] <<overlap, nq, nc>> = <<2, 2, 7>> -> <<534522483, 82484868>>
          [] <<overlap, nq, nc>> = <<1, 2, 8>> -> <<249999999, 99999994>>
          [] <<overlap, nq, nc>> = <<2, 2, 8>> -> <<499999999, 99999989>>
          [] <<overlap, nq, nc>> = <<1, 2, 9>> -> <<235702260, 39551581>>
          [] <<overlap, nq, nc>> = <<2, 2, 9>> -> <<471404520, 79103162>>
          [] <<overlap, nq, nc>> = <<1, 3, 1>> -> <<577350269, 18962584>>
          [] <<overlap, nq, nc>> = <<1, 3, 2>> -> <<408248290, 46386296>>
          [] <<overlap, nq, nc>> = <<2, 3, 2>> -> <<816496580, 92772592>>
          [] <<overlap, nq, nc>> = <<1, 3, 3>> -> <<333333333, 33333337>>
          [] <<overlap, nq, nc>> = <<2, 3, 3>> -> <<666666666, 66666674>>
          [] <<overlap, nq, nc>> = <<3, 3, 3>> -> <<1000000000, 22>>
          [] <<overlap, nq, nc>> = <<1, 3, 4>> -> <<288675134, 59481292>>
          [] <<overlap, nq, nc>> = <<2, 3, 4>> -> <<577350269, 18962584>>
          [] <<overlap, nq, nc>> = <<3, 3, 4>> -> <<866025403, 78443871>>
          [] <<overlap, nq, nc>> = <<1, 3, 5>> -> <<258198889, 74716110>>
          [] <<overlap, nq, nc>> = <<2, 3, 5>> -> <<516397779, 49432220>>
          [] <<overlap, nq, nc>> = <<3, 3, 5>> -> <<774596669, 24148340>>
          [] <<overlap, nq, nc>> = <<1, 3, 6>> -> <<235702260, 39551587>>
          [] <<overlap, nq, nc>> = <<2, 3, 6>> -> <<471404520, 79103173>>
          [] <<overlap, nq, nc>> = <<3, 3, 6>> -> <<707106781, 18654757>>
          [] <<overlap, nq, nc>> = <<1, 3, 7>> -> <<218217890, 23599239>>
          [] <<overlap, nq, nc>> = <<2, 3, 7>> -> <<436435780, 47198478>>
          [] <<overlap, nq, nc>> = <<3, 3, 7>> -> <<654653670, 70797720>>
          [] <<overlap, nq, nc>> = <<1, 3, 8>> -> <<204124145, 23193148>>
          [] <<overlap, nq, nc>> = <<2, 3, 8>> -> <<408248290, 46386296>>
          [] <<overlap, nq, nc>> = <<3, 3, 8>> -> <<612372435, 69579447>>
          [] <<overlap, nq, nc>> = <<1, 3, 9>> -> <<192450089, 72987526>>
          [] <<overlap, nq, nc>> = <<2, 3, 9>> -> <<384900179, 45975052>>
          [] <<overlap, nq, nc>> = <<3, 3, 9>> -> <<577350269, 18962573>>

\* a < b on such doubles
FloatLess(a, b) == a[1] < b[1] \/ (a[1] = b[1] /\ a[2] < b[2])

\* set(terms)
set_of(terms) == { terms[x] : x \in 1..Len(terms) }

\* a plausible slip: overlap < 0 is tested instead of overlap <= 0
Qualifies_nonneg(q_set, row) == row.chunk_norm # << >>

\* the row passes the three 'continue' tests of the scan
Qualifies(q_set, row) ==
    /\ row.chunk_norm # << >>
    /\ Cardinality(q_set \cap set_of(row.chunk_norm)) > 0

Hit(q_set, row) ==
    LET c_set == set_of(row.chunk_norm)
    IN  [url |-> row.url, title |-> row.title, chunk |-> row.chunk,
         score |-> float_score(Cardinality(q_set \cap c_set), Cardinality(q_set),
                               Cardinality(c_set))]

\* list.sort is stable, also with reverse=True: h goes behind every element
\* whose score is not smaller
insert_desc(sorted_hits, h) ==
    LET ahead == Cardinality({ x \in 1..Len(sorted_hits) :
                                 ~FloatLess(sorted_hits[x].score, h.score) })
    IN  SubSeq(sorted_hits, 1, ahead) \o <<h>>
            \o SubSeq(sorted_hits, ahead + 1, Len(sorted_hits))

\* a plausible slip: reverse=True left out
insert_asc(sorted_hits, h) ==
    LET ahead == Cardinality({ x \in 1..Len(sorted_hits) :
                                 ~FloatLess(h.score, sorted_hits[x].score) })
    IN  SubSeq(sorted_hits, 1, ahead) \o <<h>>
            \o SubSeq(sorted_hits, ahead + 1, Len(sorted_hits))

RECURSIVE sort_ascending(_)
sort_ascending(hits) ==
    IF hits = << >> THEN << >>
    ELSE insert_asc(sort_ascending(SubSeq(hits, 1, Len(hits) - 1)), hits[Len(hits)])

\* hits.sort(key=lambda h: h.score, reverse=True)
RECURSIVE sort_by_score(_)
sort_by_score(hits) ==
    IF hits = << >> THEN << >>
    ELSE insert_desc(sort_by_score(SubSeq(hits, 1, Len(hits) - 1)), hits[Len(hits)])

\* search(query, k) over the rows of the chunks table
search(table, query, k) ==
    LET q_terms == tokenize(query)
        q_set == set_of(q_terms)
        scanned == SelectSeq(table, LAMBDA row : Qualifies(q_set, row))
        hits == [x \in 1..Len(scanned) |-> Hit(q_set, scanned[x])]
    IN  IF q_terms = << >> THEN << >>
        ELSE PySlice(sort_by_score(hits), 0, k)

\* A string is the sequence of its pieces: line breaks and fields.
NL == [kind |-> "newline", n |-> 0, url |-> "", chunk |-> << >>]
Header == [kind |-> "EMU MEVZUAT EXCERPTS:", n |-> 0, url |-> "", chunk |-> << >>]

\* "\n".join(parts)
RECURSIVE join(_)
join(parts) ==
    IF parts = << >> THEN << >>
    ELSE IF Len(parts) = 1 THEN parts[1]
    ELSE parts[1] \o <<NL>> \o join(Tail(parts))

\* f"\n[{i}] {h.url}\n{h.chunk}\n"
entry(i, h) ==
    <<NL, [kind |-> "[i] url", n |-> i, url |-> h.url, chunk |-> << >>],
      NL, [kind |-> "chunk", n |-> 0, url |-> "", chunk |-> h.chunk], NL>>

\* a plausible slip: enumerate(hits) without the start value 1
build_context_from0(table, query, k) ==
    LET hits == search(table, query, k)
    IN  IF hits = << >> THEN << >>
        ELSE join(<<<<Header>>>> \o [x \in 1..Len(hits) |-> entry(x - 1, hits[x])])

\* build_context(query, k)
build_context(table, query, k) ==
    LET hits == search(table, query, k)
    IN  IF hits = << >> THEN << >>
        ELSE join(<<<<Header>>>> \o [x \in 1..Len(hits) |-> entry(x, hits[x])])

\* the pages a store may hold and the texts they may have had when indexed
PageUrls == {SeedUrl, UrlA, UrlB}
WideText == <<"fee", "rule", "schedule", "registration", "graduation",
              "pre-requisites", "exam", "Credit;">>
OneText == <<"fee">>
StoreTexts == {FeeText, GradText, RuleText, WideText, OneText}

\* the order in which the pages were last indexed, and with which text
Indexings ==
    UNION { { s \in [1..len -> PageUrls \X StoreTexts] :
                \A x \in 1..len : \A y \in 1..len : x # y => s[x][1] # s[y][1] }
            : len \in 0..Cardinality(PageUrls) }

RECURSIVE RowsOf(_)
RowsOf(s) ==
    IF s = << >> THEN << >>
    ELSE RowsOf(SubSeq(s, 1, Len(s) - 1)) \o NewRows(s[Len(s)][1], s[Len(s)][2])

DocsOf(s) ==
    [u \in { s[x][1] : x \in 1..Len(s) } |->
        LET x == CHOOSE y \in 1..Len(s) : s[y][1] = u
        IN  [title |-> TitleOf(u), fetched_at |-> 1, content |-> s[x][2]]]

Queries == { <<"registration", "fee">>, <<"fee", "rule", "schedule,">>,
             <<"Graduation">>, <<"--">>, << >> }
KChoices == {0 - 1, 0, 1, 2, DefaultK}

\* search or build_context is called on an indexed store
InitSearch ==
    /\ IndexQuiet
    /\ \E s \in Indexings : docs = DocsOf(s) /\ chunks = RowsOf(s)
    /\ ck = NoChunkCall /\ app = NoChat /\ cw = << >> /\ events = << >>
    /\ completions = << >>
    /\ \E q \in Queries : \E k \in KChoices :
          kb = [NoKbCall EXCEPT !.pc = "call", !.query = q, !.k = k]

\* search(query, k) runs and returns its hits
SearchCall ==
    /\ kb.pc = "call"
    /\ kb' = [kb EXCEPT !.hits = search(chunks, kb.query, kb.k), !.pc = "returned"]
    /\ rows' = IF tokenize(kb.query) = << >> THEN rows ELSE chunks
    /\ UNCHANGED <<clock, net, docs, chunks, tx, pc, loc, result, requests, hist,
                   quiet, calls, changes, args, ck, app, cw, events, completions>>

\* build_context(query, k) runs: it calls search and formats the hits
BuildContextCall ==
    /\ kb.pc = "call"
    /\ kb' = [kb EXCEPT !.hits = search(chunks, kb.query, kb.k),
                        !.context = build_context(chunks, kb.query, kb.k),
                        !.pc = "built"]
    /\ rows' = IF tokenize(kb.query) = << >> THEN rows ELSE chunks
    /\ UNCHANGED <<clock, net, docs, chunks, tx, pc, loc, result, requests, hist,
                   quiet, calls, changes, args, ck, app, cw, events, completions>>

NextSearch ==
    \/ SearchCall
    \/ BuildContextCall

SpecSearch == InitSearch /\ [][NextSearch]_vars

-----------------------------------------------------------------------------
(* The chat window (ChatApp) and its worker threads (ChatWorker) *)

\* A prompt is the sequence of its parts; a part is a piece of text (lexemes)
\* under a label, with the file name or URL it quotes.
Part(kind, text, name, url) == [kind |-> kind, text |-> text, name |-> name, url |-> url]

\* what the user may type, and the file that may be attached
UserTexts == { << >>, <<"registration", "fee">>,
               <<"Summarize", "https://mevzuat.emu.edu.tr/a.htm">> }
FileText == <<"exam", "rule">>

\* _find_first_url: the first lexeme matching https?://[^\s]+, or "" (None)
FirstUrlIn(text) ==
    LET at == { x \in 1..Len(text) : text[x] = "https://mevzuat.emu.edu.tr/a.htm" }
    IN  IF at = {} THEN "" ELSE UrlA

RECURSIVE _find_first_url(_)
_find_first_url(prompt) ==
    IF prompt = << >> THEN ""
    ELSE IF FirstUrlIn(prompt[1].text) # "" THEN FirstUrlIn(prompt[1].text)
    ELSE _find_first_url(Tail(prompt))

\* a ChatWorker as constructed by send_message; sent_in remembers the chat
\* that was active then (the worker itself holds no reference to it)
NewWorker(text, file_path) ==
    [prompt |-> text, file_path |-> file_path, pc |-> "start", local |-> << >>,
     reply |-> "", emitted |-> << >>, sent_in |-> 0]

\* save_history: json.dumps(chats) written to the user's history file
save_history(chats, objs) ==
    [x \in 1..Len(chats) |-> [id |-> chats[x], summary |-> objs[chats[x]].summary,
                               messages |-> objs[chats[x]].messages]]

\* if self.active_chat not in self.chats: self.chats.append(self.active_chat)
with_active(chats, c) ==
    IF \E x \in 1..Len(chats) : chats[x] = c THEN chats ELSE Append(chats, c)

\* the content of the first user message of a chat, "" when there is none
first_user(messages) ==
    LET at == { x \in 1..Len(messages) : messages[x].role = "user" }
    IN  IF at = {} THEN << >>
        ELSE messages[CHOOSE x \in at : \A y \in at : x <= y].content

\* the ChatWorkers are numbered in the order send_message creates them
WorkerIds == 1..MaxSends

Signal(w, name, arg) == [worker |-> w, signal |-> name, arg |-> arg]

\* self.<signal>.emit(arg) in the thread of worker w: queued for the GUI
\* thread.  (The status signals only set the typing label; they are left out.)
Emit(w, name, arg) ==
    /\ events' = Append(events, Signal(w, name, arg))

\* the window is shown over an indexed store
InitChat ==
    /\ IndexQuiet
    /\ docs = DocsOf(<<<<UrlA, FeeText>>>>)
    /\ chunks = RowsOf(<<<<UrlA, FeeText>>>>)
    /\ ck = NoChunkCall /\ kb = NoKbCall
    /\ app = NoChat
    /\ cw = << >>
    /\ events = << >>
    /\ completions = << >>

\* attach_file: the dialog returns a document path
AttachFile ==
    /\ app.attached_file_path = ""
    /\ Len(cw) < MaxSends
    /\ app' = [app EXCEPT !.attached_file_path = "notes.txt"]
    /\ UNCHANGED <<indexVars, ck, kb, cw, events, completions>>

\* handle_send_clicked and send_message: Return or the send button, which the
\* widgets accept only while enabled
HandleSendClicked(text) ==
    /\ ~app.disabled
    /\ Len(cw) < MaxSends
    /\ ~(text = << >> /\ app.attached_file_path = "")
    /\ cw' = Append(cw, [NewWorker(text, app.attached_file_path)
                            EXCEPT !.sent_in = app.active_chat])
    /\ LET c == app.active_chat
           objs == [app.objs EXCEPT ![c].messages =
                       Append(@, [role |-> "user", content |-> text,
                                  file |-> app.attached_file_path])]
           chats == with_active(app.chats, c)
       IN  app' = [app EXCEPT !.objs = objs,
                              !.chats = chats,
                              !.saved = save_history(chats, objs),
                              !.attached_file_path = "",
                              !.current_worker = Len(cw) + 1]
    /\ UNCHANGED <<indexVars, ck, kb, events, completions>>

\* run: self.busy.emit(True); prompt = self.prompt or ""
RunBusy(w) ==
    /\ w <= Len(cw) /\ cw[w].pc = "start"
    /\ Emit(w, "busy", "True")
    /\ cw' = [cw EXCEPT ![w].pc = IF cw[w].file_path # "" THEN "file" ELSE "url",
                        ![w].local = <<Part("text", cw[w].prompt, "", "")>>,
                        ![w].emitted = Append(@, <<"busy", "True">>)]
    /\ UNCHANGED <<indexVars, ck, kb, app, completions>>

\* the attached file is read and quoted in the prompt
RunReadFileOk(w) ==
    /\ w <= Len(cw) /\ cw[w].pc = "file"
    /\ cw' = [cw EXCEPT ![w].pc = "url",
                        ![w].local = @ \o <<Part("FILE/CONTENT", FileText, cw[w].file_path, "")>>]
    /\ UNCHANGED <<indexVars, ck, kb, app, events, completions>>

\* extract_text_with_unstructured raises: the prompt says so
RunReadFileFail(w) ==
    /\ w <= Len(cw) /\ cw[w].pc = "file"
    /\ cw' = [cw EXCEPT ![w].pc = "url",
                        ![w].local = @ \o <<Part("I couldn't read the attached file", << >>, "", "")>>]
    /\ UNCHANGED <<indexVars, ck, kb, app, events, completions>>

\* no URL in the prompt
RunNoUrl(w) ==
    /\ w <= Len(cw) /\ cw[w].pc = "url"
    /\ _find_first_url(cw[w].local) = ""
    /\ cw' = [cw EXCEPT ![w].pc = "think"]
    /\ UNCHANGED <<indexVars, ck, kb, app, events, completions>>

\* the link is fetched: the prompt becomes the request to summarize it
RunFetchOk(w) ==
    /\ w <= Len(cw) /\ cw[w].pc = "url"
    /\ _find_first_url(cw[w].local) # ""
    /\ cw' = [cw EXCEPT ![w].pc = "think",
                        ![w].local = <<Part("Summarize this publication clearly", GradText, "",
                                            _find_first_url(cw[w].local))>>]
    /\ UNCHANGED <<indexVars, ck, kb, app, events, completions>>

\* fetch_url_text raises: the prompt becomes the report of the error
RunFetchFail(w) ==
    /\ w <= Len(cw) /\ cw[w].pc = "url"
    /\ _find_first_url(cw[w].local) # ""
    /\ cw' = [cw EXCEPT ![w].pc = "think",
                        ![w].local = <<Part("I couldn't fetch the link", << >>, "", "")>>]
    /\ UNCHANGED <<indexVars, ck, kb, app, events, completions>>

\* reply = chat_with_gpt(prompt, self.image_path) returns
RunChatOk(w) ==
    /\ w <= Len(cw) /\ cw[w].pc = "think"
    /\ completions' = Append(completions, [worker |-> w, prompt |-> cw[w].local])
    /\ cw' = [cw EXCEPT ![w].pc = "replied", ![w].reply = "reply"]
    /\ UNCHANGED <<indexVars, ck, kb, app, events>>

\* chat_with_gpt raises (no network, API error): nothing in run catches it,
\* the exception leaves run and the thread ends
RunChatRaise(w) ==
    /\ w <= Len(cw) /\ cw[w].pc = "think"
    /\ completions' = Append(completions, [worker |-> w, prompt |-> cw[w].local])
    /\ cw' = [cw EXCEPT ![w].pc = "raised"]
    /\ UNCHANGED <<indexVars, ck, kb, app, events>>

\* self.busy.emit(False)
RunEmitBusyFalse(w) ==
    /\ w <= Len(cw) /\ cw[w].pc = "replied"
    /\ Emit(w, "busy", "False")
    /\ cw' = [cw EXCEPT ![w].pc = "finishing", ![w].emitted = Append(@, <<"busy", "False">>)]
    /\ UNCHANGED <<indexVars, ck, kb, app, completions>>

\* self.finished.emit(reply); run returns
RunEmitFinished(w) ==
    /\ w <= Len(cw) /\ cw[w].pc = "finishing"
    /\ Emit(w, "finished", cw[w].reply)
    /\ cw' = [cw EXCEPT ![w].pc = "returned", ![w].emitted = Append(@, <<"finished", cw[w].reply>>)]
    /\ UNCHANGED <<indexVars, ck, kb, app, completions>>

\* on_worker_busy, in the GUI thread: set_ui_busy(is_busy)
OnWorkerBusy ==
    /\ events # << >> /\ Head(events).signal = "busy"
    /\ app' = [app EXCEPT !.disabled = (Head(events).arg = "True")]
    /\ events' = Tail(events)
    /\ UNCHANGED <<indexVars, ck, kb, cw, completions>>

\* on_bot_reply: current_worker = None, the reply joins self.active_chat (the
\* chat active when the signal is handled), the history is saved, an empty
\* summary is set from the first user message and the history saved again
OnBotReply ==
    /\ events # << >> /\ Head(events).signal = "finished"
    /\ LET c == app.active_chat
           msgs == Append(app.objs[c].messages,
                          [role |-> "bot", content |-> <<Head(events).arg>>, file |-> ""])
           summary == IF app.objs[c].summary = << >> THEN first_user(msgs)
                      ELSE app.objs[c].summary
           objs == [app.objs EXCEPT ![c] = [summary |-> summary, messages |-> msgs]]
       IN  app' = [app EXCEPT !.current_worker = 0,
                              !.objs = objs,
                              !.saved = save_history(app.chats, objs)]
    /\ events' = Tail(events)
    /\ UNCHANGED <<indexVars, ck, kb, cw, completions>>

RunStep(w) ==
    \/ RunBusy(w)
    \/ RunReadFileOk(w)
    \/ RunReadFileFail(w)
    \/ RunNoUrl(w)
    \/ RunFetchOk(w)
    \/ RunFetchFail(w)
    \/ RunChatOk(w)
    \/ RunChatRaise(w)
    \/ RunEmitBusyFalse(w)
    \/ RunEmitFinished(w)

NextChat ==
    \/ AttachFile
    \/ \E text \in UserTexts : HandleSendClicked(text)
    \/ \E w \in WorkerIds : RunStep(w)
    \/ OnWorkerBusy
    \/ OnBotReply

SpecChat == InitChat /\ [][NextChat]_vars

-----------------------------------------------------------------------------
(* The chat window with its chat list: New Chat and Previous Chats *)

ChatIds == 1..MaxChats

\* a chat of an earlier session, as load_history returns it
OldChat == [summary |-> <<"exam">>,
            messages |-> <<[role |-> "user", content |-> <<"exam">>, file |-> ""],
                           [role |-> "bot", content |-> <<"reply">>, file |-> ""]>>]

\* __init__: no history file, or a history whose last chat is loaded
InitChats ==
    /\ IndexQuiet
    /\ docs = DocsOf(<<<<UrlA, FeeText>>>>)
    /\ chunks = RowsOf(<<<<UrlA, FeeText>>>>)
    /\ ck = NoChunkCall /\ kb = NoKbCall
    /\ app \in { NoChat,
                  [NoChat EXCEPT !.objs = <<OldChat>>, !.chats = <<1>>,
                                 !.saved = save_history(<<1>>, <<OldChat>>)] }
    /\ cw = << >>
    /\ events = << >>
    /\ completions = << >>

\* start_new_chat (the New Chat button, enabled at all times): a chat with
\* messages is put on the list and saved, then a fresh chat becomes active
StartNewChat ==
    /\ Len(app.objs) < MaxChats
    /\ LET c == app.active_chat
           kept == app.objs[c].messages # << >>
           chats == IF kept THEN with_active(app.chats, c) ELSE app.chats
       IN  app' = [app EXCEPT !.chats = chats,
                              !.saved = IF kept THEN save_history(chats, app.objs) ELSE @,
                              !.objs = Append(@, NewChat),
                              !.active_chat = Len(app.objs) + 1]
    /\ UNCHANGED <<indexVars, ck, kb, cw, events, completions>>

\* load_chat, from the Previous Chats dialog: a chat of the list becomes active
LoadChat(c) ==
    /\ \E x \in 1..Len(app.chats) : app.chats[x] = c
    /\ c # app.active_chat
    /\ app' = [app EXCEPT !.active_chat = c]
    /\ UNCHANGED <<indexVars, ck, kb, cw, events, completions>>

NextChats ==
    \/ AttachFile
    \/ \E text \in UserTexts : HandleSendClicked(text)
    \/ \E w \in WorkerIds : RunStep(w)
    \/ OnWorkerBusy
    \/ OnBotReply
    \/ StartNewChat
    \/ \E c \in ChatIds : LoadChat(c)

SpecChats == InitChats /\ [][NextChats]_vars

-----------------------------------------------------------------------------
(* Re-indexing a page whose text spans more than one chunk *)

\* a page text one token longer than a chunk: chunk_tokens gives two chunks
LongText == [x \in 1..(DefaultChunkSize + 1) |-> IF x % 2 = 0 THEN "fee" ELSE "rule"]

\* an empty store; a.htm answers with the long text until the site changes
InitReplace ==
    /\ NonIndexIdle
    /\ clock = 0
    /\ net = [u \in Urls |->
                CASE u = SeedUrl -> Page(FeeText, Hrefs)
                  [] u = UrlA -> Page(LongText, {})
                  [] u = UrlB -> Page(RuleText, {})
                  [] OTHER -> Page(GradText, {})]
    /\ docs = << >>
    /\ chunks = << >>
    /\ tx = [p \in Workers |-> NoTx]
    /\ pc = [p \in Workers |-> "idle"]
    /\ loc = [p \in Workers |-> NoLoc]
    /\ result = [p \in Workers |-> "none"]
    /\ requests = [p \in Workers |-> << >>]
    /\ rows = << >>
    /\ hist = << >>
    /\ quiet = 0
    /\ calls = 0
    /\ changes = 0
    /\ args \in [refresh_days : RefreshDaysChoices, max_pages : {600}]

\* one indexing worker and the world; no search runs meanwhile
NextReplace ==
    \/ Step("w1")
    \/ SiteChange

SpecReplace == InitReplace /\ [][NextReplace]_vars

-----------------------------------------------------------------------------
(* Properties *)

ChunksOf(table, u) == SelectSeq(table, LAMBDA r : r.url = u)

AllIdle == \A p \in Workers : pc[p] = "idle"

\* the last two finished calls were both entered after the site last changed
\* and ran one after the other with the same arguments
TwoRuns ==
    /\ AllIdle
    /\ Len(hist) = 2
    /\ quiet = 2
    /\ hist[1].result # "storage_error"

SameStore(h1, h2) ==
    /\ h1.docs = h2.docs
    /\ \A u \in Urls : ChunksOf(h1.chunks, u) = ChunksOf(h2.chunks, u)

WindowOf(h) == h.refresh_days * 86400

\* every Document run 1 left for a candidate of run 2 is inside the refresh
\* window when run 2 reads the clock
AllFreshAtRun2 ==
    \A k \in 1..Len(hist[2].discovered) :
        LET u == hist[2].discovered[k]
        IN  u \in DOMAIN hist[1].docs
              => hist[2].now - hist[1].docs[u].fetched_at < WindowOf(hist[2])

\* C1 as stated: two calls in immediate succession (run 2 reads the clock at
\* most one second after run 1 did) over an unchanging site leave the same
\* store.
C1_AsStated ==
    (TwoRuns /\ hist[2].now - hist[1].now <= 1) => SameStore(hist[1], hist[2])

\* C1 amended: two calls one after the other over an unchanging site leave the
\* same store (Documents and per-URL chunk lists) provided every Document run 1
\* left for a candidate URL is still inside the refresh window when run 2 reads
\* the clock.
C1_Idempotent ==
    (TwoRuns /\ AllFreshAtRun2) => SameStore(hist[1], hist[2])

C1_Witness ==
    /\ TwoRuns /\ AllFreshAtRun2
    /\ hist[1].result = "ok" /\ hist[2].result = "ok"
    /\ hist[2].now > hist[1].now
    /\ Len(hist[2].discovered) >= 2
    /\ UrlB \in DOMAIN hist[2].docs

\* C2 as stated: a second run over an unchanged site, begun before the
\* refresh window has elapsed, issues no HTTP request at all.
C2_AsStated ==
    (TwoRuns /\ hist[2].now - hist[1].now < WindowOf(hist[2]))
        => Len(hist[2].requests) = 0

\* C2 amended: a second run over an unchanged site issues the seed-page GET
\* (link discovery) and, after it, requests only candidates that have no
\* Document inside the refresh window; when every candidate has one, the seed
\* GET is its only request.
C2_SecondRunRequests ==
    TwoRuns =>
        LET rq == hist[2].requests
        IN  /\ Len(rq) >= 1
            /\ rq[1].url = SeedUrl
            /\ \A k \in 2..Len(rq) :
                  ~(/\ rq[k].url \in DOMAIN hist[1].docs
                    /\ hist[2].now - hist[1].docs[rq[k].url].fetched_at < WindowOf(hist[2]))
            /\ ((\A k \in 1..Len(hist[2].discovered) :
                    /\ hist[2].discovered[k] \in DOMAIN hist[1].docs
                    /\ hist[2].now - hist[1].docs[hist[2].discovered[k]].fetched_at
                          < WindowOf(hist[2]))
                  => Len(rq) = 1)

C2_Witness ==
    /\ TwoRuns
    /\ hist[2].result = "ok"
    /\ Len(hist[2].discovered) = 4
    /\ Len(hist[2].requests) = 1
    /\ hist[2].now > hist[1].now

\* C3: when the seed GET fails, the call ends there with the failure raised to
\* its caller, having issued that one request only and changed no table.
C3_SeedFailure ==
    [][\A p \in Workers :
          (pc[p] = "seed" /\ pc'[p] # "seed" /\ ~net[SeedUrl].ok)
            => /\ pc'[p] = "idle"
               /\ result'[p] = "seed_failed"
               /\ requests'[p] = <<[url |-> SeedUrl, ok |-> FALSE]>>
               /\ docs' = docs /\ chunks' = chunks /\ tx' = tx]_vars

C3_Witness ==
    /\ pc["w1"] = "idle" /\ result["w1"] = "seed_failed"
    /\ Len(requests["w1"]) = 1
    /\ UrlA \in DOMAIN docs /\ chunks # << >>

\* every candidate of a committed run was handled: requested in the loop, or
\* left alone with a Document inside the refresh window
Handled(p, u) ==
    \/ \E k \in 2..Len(requests[p]) : requests[p][k].url = u
    \/ /\ u \in DOMAIN docs
       /\ loc[p].now - docs[u].fetched_at < loc[p].refresh_days * 86400

\* C4: a failed page fetch changes no table and no pending write, the loop
\* goes on to the next candidate, and a run that commits has handled every
\* candidate of its list.
C4_PageFailureSkipped ==
    /\ [][\A p \in Workers :
            (/\ pc[p] = "loop" /\ loc[p].i <= Len(loc[p].discovered)
             /\ ~net[loc[p].discovered[loc[p].i]].ok
             /\ requests'[p] # requests[p])
              => /\ pc'[p] = "loop"
                 /\ result'[p] = "running"
                 /\ loc'[p].i = loc[p].i + 1
                 /\ loc'[p].discovered = loc[p].discovered
                 /\ docs' = docs /\ chunks' = chunks /\ tx' = tx]_vars
    /\ [](\A p \in {"w1"} :
            (pc[p] = "idle" /\ result[p] = "ok")
              => \A k \in 1..Len(loc[p].discovered) : Handled(p, loc[p].discovered[k]))

C4_Witness ==
    LET rq == requests["w1"]
    IN  /\ pc["w1"] = "idle" /\ result["w1"] = "ok"
        /\ \E j \in 2..Len(rq) : \E k \in 2..Len(rq) :
              /\ j < k /\ ~rq[j].ok /\ rq[k].ok
              /\ rq[k].url \in DOMAIN docs
              /\ docs[rq[k].url].fetched_at = loc["w1"].now
        /\ UrlA \in DOMAIN docs /\ docs[UrlA].fetched_at < loc["w1"].now

\* C5 as stated: when a write statement fails for one URL, the URLs the same
\* run indexed before it are stored.
C5_AsStated ==
    \A p \in Workers :
        (pc[p] = "idle" /\ result[p] = "storage_error")
          => \A k \in 2..(Len(requests[p]) - 1) :
                requests[p][k].ok
                  => /\ requests[p][k].url \in DOMAIN docs
                     /\ docs[requests[p][k].url].fetched_at = loc[p].now

\* the complete chunk rows of the Document a table holds for u
RowsFor(d, u) == IF u \in DOMAIN d THEN NewRows(u, d[u].content) ELSE << >>

\* C6: what a search reads for a URL is the complete chunk set of the
\* committed Document (old) or of the Document a writer is storing (new),
\* never a set in between.
C6_NoPartialRead ==
    [][rows' # rows =>
          \A u \in Urls :
              \/ ChunksOf(rows', u) = RowsFor(docs, u)
              \/ \E p \in Workers :
                    tx[p].open /\ ChunksOf(rows', u) = RowsFor(tx[p].docs, u)]_vars

C6_Witness ==
    \E p \in Workers :
        /\ pc[p] = "insert" /\ tx[p].open
        /\ ChunksOf(chunks, CurUrl(p)) # << >>
        /\ ChunksOf(tx[p].chunks, CurUrl(p)) = << >>
        /\ tx[p].docs[CurUrl(p)].content # docs[CurUrl(p)].content
        /\ rows = chunks

\* C7: at most one ensure_index call has uncommitted writes at any time, and
\* no two calls are inside a chunk replacement together.
C7_OneWriter ==
    \A p \in Workers : \A q \in Workers \ {p} :
        /\ ~(tx[p].open /\ tx[q].open)
        /\ ~(pc[p] \in {"delete", "insert"} /\ pc[q] \in {"delete", "insert"})

C7_Witness ==
    \E p \in Workers : \E q \in Workers \ {p} :
        /\ tx[p].open /\ pc[p] \in {"delete", "insert"}
        /\ pc[q] = "upsert"

OnAllowedHost(u) ==
    LET parts == urlparse(u)
    IN  parts.scheme \in {"http", "https"} /\ parts.netloc = "mevzuat.emu.edu.tr"

\* C8: every URL requested, and every URL in the docs and chunks tables
\* (committed or pending), is http(s) on the allowed host.
C8_HostAllowList ==
    /\ \A p \in Workers :
          /\ \A k \in 1..Len(requests[p]) : OnAllowedHost(requests[p][k].url)
          /\ \A u \in DOMAIN tx[p].docs : OnAllowedHost(u)
          /\ \A k \in 1..Len(tx[p].chunks) : OnAllowedHost(tx[p].chunks[k].url)
    /\ \A u \in DOMAIN docs : OnAllowedHost(u)
    /\ \A k \in 1..Len(chunks) : OnAllowedHost(chunks[k].url)

C8_Witness ==
    /\ pc["w1"] = "idle" /\ result["w1"] = "ok"
    /\ "https://evil.example.com/page.htm" \in net[SeedUrl].hrefs
    /\ Len(loc["w1"].discovered) = 4
    /\ Len(requests["w1"]) >= 4
    /\ UrlB \in DOMAIN docs

ListBuilt(p) == pc[p] \in {"loop", "upsert", "delete", "insert"}

PosIn(s, u) == CHOOSE k \in 1..Len(s) : s[k] = u

\* entries 2.. of the list are candidates in strictly increasing string order
LinksSorted(d) ==
    \A j \in 2..Len(d) : \A k \in 2..Len(d) :
        j < k => PosIn(UrlOrder, d[j]) < PosIn(UrlOrder, d[k])

\* C9 as stated: for every maxPages the list has at most maxPages entries and
\* the seed is its entry 0.
C9_AsStated ==
    \A p \in Workers :
        ListBuilt(p) =>
            /\ Len(loc[p].discovered) <= loc[p].max_pages
            /\ Len(loc[p].discovered) >= 1
            /\ loc[p].discovered[1] = SeedUrl

\* C9 amended: for every maxPages >= 1 the list is the seed followed by the
\* sorted links, cut to maxPages entries, with the seed as entry 0; for
\* maxPages = 0 the list is empty, the seed included.
C9_CandidateList ==
    \A p \in Workers :
        ListBuilt(p) =>
            LET d == loc[p].discovered
                m == loc[p].max_pages
            IN  /\ LinksSorted(d)
                /\ m >= 1 => (Len(d) <= m /\ Len(d) >= 1 /\ d[1] = SeedUrl)
                /\ m = 0 => d = << >>

C9_Witness ==
    /\ ListBuilt("w1")
    /\ loc["w1"].max_pages = 2
    /\ loc["w1"].discovered = <<SeedUrl, UrlA>>
    /\ "b.pdf" \in net[SeedUrl].hrefs

\* C10: a candidate is skipped (no request, nothing written) exactly when the
\* store holds a Document for it with now - fetched_at < refreshDays*86400;
\* otherwise it is requested.
C10_FreshnessCache ==
    [][\A p \in {"w1"} :
          (/\ pc[p] = "loop" /\ loc[p].i <= Len(loc[p].discovered)
           /\ (pc'[p] # pc[p] \/ loc'[p] # loc[p]))
            => LET u == loc[p].discovered[loc[p].i]
                   d == IF tx[p].open THEN tx[p].docs ELSE docs
                   fresh == /\ u \in DOMAIN d
                            /\ loc[p].now - d[u].fetched_at < loc[p].refresh_days * 86400
               IN  /\ fresh => /\ requests'[p] = requests[p]
                               /\ tx' = tx /\ docs' = docs /\ chunks' = chunks
                               /\ pc'[p] = "loop" /\ loc'[p].i = loc[p].i + 1
                   /\ ~fresh => requests'[p] =
                                  Append(requests[p], [url |-> u, ok |-> net[u].ok])]_vars

C10_Witness ==
    /\ pc["w1"] = "upsert"
    /\ loc["w1"].refresh_seconds > 0
    /\ CurUrl("w1") \in DOMAIN docs
    /\ loc["w1"].now - docs[CurUrl("w1")].fetched_at = loc["w1"].refresh_seconds
    /\ loc["w1"].i > 1

\* C11 as stated: within one ensure_index call a URL whose page fetch failed
\* is not requested again by that call's loop (each candidate is attempted at
\* most once).
C11_AsStated ==
    \A p \in Workers :
        LET rq == requests[p]
        IN  \A j \in 2..Len(rq) : \A m \in 2..Len(rq) :
                (j < m /\ ~rq[j].ok) => rq[m].url # rq[j].url

\* chunk_tokens has returned from a call with chunk_size > overlap >= 0
ValidChunkReturn ==
    /\ ck.pc = "returned"
    /\ ck.chunk_size > ck.overlap /\ ck.overlap >= 0

\* C12 as stated: for chunk_size > overlap >= 0, a token list T with
\* 0 < len(T) <= chunk_size gives exactly one chunk, T itself, and the empty
\* list gives no chunk.
C12_AsStated ==
    ValidChunkReturn =>
        /\ (0 < Len(ck.tokens) /\ Len(ck.tokens) <= ck.chunk_size) => ck.out = <<ck.tokens>>
        /\ Len(ck.tokens) = 0 => ck.out = << >>

\* C13 as stated: for chunk_size > overlap >= 0, chunk j (from 0) is
\* T[j*step .. j*step+chunk_size) with step = max(1, chunk_size - overlap),
\* every chunk but the last has exactly chunk_size tokens, and the windows
\* cover every token of T, in order and without a gap.
C13_AsStated ==
    ValidChunkReturn =>
        LET T == ck.tokens
            st == IF ck.chunk_size - ck.overlap > 1 THEN ck.chunk_size - ck.overlap ELSE 1
            m == Len(ck.out)
        IN  /\ \A j \in 0..(m - 1) :
                  /\ ck.out[j + 1] = PySlice(T, j * st, j * st + ck.chunk_size)
                  /\ (j + 1 < m) => Len(ck.out[j + 1]) = ck.chunk_size
            /\ \A t \in 1..Len(T) :
                  \E j \in 0..(m - 1) : j * st < t /\ t <= j * st + Len(ck.out[j + 1])
            /\ \A j \in 1..(m - 1) : j * st <= (j - 1) * st + Len(ck.out[j])

\* C14: chunk_tokens returns for every token list and every integer
\* chunk_size and overlap, also with overlap >= chunk_size or chunk_size <= 0:
\* the step is at least 1, every iteration that appends a chunk moves the
\* window index forward, at most len(tokens) chunks are appended, and the call
\* returns.
C14_Terminates ==
    /\ [][(ck.pc = "loop" /\ ck'.out # ck.out)
            => (ck.step >= 1 /\ ck'.i > ck.i /\ Len(ck'.out) <= ck.n)]_vars
    /\ <>(ck.pc = "returned")

C14_Witness ==
    /\ ck.pc = "returned"
    /\ ck.overlap >= ck.chunk_size /\ ck.chunk_size >= 1
    /\ Len(ck.out) >= 3
    /\ ck.out = chunk_tokens(ck.tokens, ck.chunk_size, ck.overlap)

\* the rows of the chunks table that share a token with the query
Sharing(table, query) ==
    { x \in 1..Len(table) :
        set_of(tokenize(query)) \cap set_of(tokenize(table[x].chunk)) # {} }

\* |Q \cap C| and |C| of row x
SharedOf(table, query, x) ==
    Cardinality(set_of(tokenize(query)) \cap set_of(tokenize(table[x].chunk)))
SizeOf(table, x) == Cardinality(set_of(tokenize(table[x].chunk)))

\* row x comes before row y by the exact score |Q \cap C| / sqrt(|Q| * |C|),
\* ties in storage order (|Q| is the same on both sides: the squares are
\* compared)
ExactBefore(table, query, x, y) ==
    LET ox == SharedOf(table, query, x)
        oy == SharedOf(table, query, y)
        l == ox * ox * SizeOf(table, y)
        r == oy * oy * SizeOf(table, x)
    IN  l > r \/ (l = r /\ x < y)

\* row x comes before row y by the score computed in double precision, ties
\* in storage order
DoubleBefore(table, query, x, y) ==
    LET nq == Cardinality(set_of(tokenize(query)))
        fx == float_score(SharedOf(table, query, x), nq, SizeOf(table, x))
        fy == float_score(SharedOf(table, query, y), nq, SizeOf(table, y))
    IN  FloatLess(fy, fx) \/ (fx = fy /\ x < y)

\* the elements of S in the order 'before'
Ranked(S, before(_, _)) ==
    [m \in 1..Cardinality(S) |->
        CHOOSE x \in S : Cardinality({ y \in S : before(y, x) }) = m - 1]

\* the rows (url, title, chunk) of a Hit list, and of a list of row numbers
HitRows(hits) ==
    [m \in 1..Len(hits) |-> <<hits[m].url, hits[m].title, hits[m].chunk>>]
TableRows(table, order) ==
    [m \in 1..Len(order) |->
        <<table[order[m]].url, table[order[m]].title, table[order[m]].chunk>>]

\* C15 as stated: for every store, query and k (a number of hits, k >= 0) the
\* result has at most k elements and is the first k of the chunks sharing a
\* token with the query, ordered by |Q \cap C| / sqrt(|Q| * |C|) descending,
\* equal scores in storage order.
C15_AsStated ==
    (kb.pc = "returned" /\ kb.k >= 0) =>
        LET want == Ranked(Sharing(chunks, kb.query),
                           LAMBDA x, y : ExactBefore(chunks, kb.query, x, y))
        IN  /\ Len(kb.hits) <= kb.k
            /\ HitRows(kb.hits) = TableRows(chunks, SubSeq(want, 1, Min(kb.k, Len(want))))

\* C15 amended: for every k >= 0 the result has at most k elements and is the
\* first k of the chunks sharing a token with the query, ordered by the score
\* as computed in double precision, float(|Q \cap C|) / (sqrt|Q| * sqrt|C|),
\* descending, chunks of equal computed score in storage order; a chunk with
\* an exactly greater score is never behind one with a smaller score.  For
\* k < 0 the result is that ordered list without its last -k elements.
C15_TopK ==
    kb.pc = "returned" =>
        LET want == Ranked(Sharing(chunks, kb.query),
                           LAMBDA x, y : DoubleBefore(chunks, kb.query, x, y))
            upto == IF kb.k >= 0 THEN Min(kb.k, Len(want))
                    ELSE Max(0, Len(want) + kb.k)
        IN  /\ kb.k >= 0 => Len(kb.hits) <= kb.k
            /\ HitRows(kb.hits) = TableRows(chunks, SubSeq(want, 1, upto))
            /\ \A m \in 1..Len(want) : \A j \in 1..Len(want) :
                  LET l == SharedOf(chunks, kb.query, want[m]) * SharedOf(chunks, kb.query, want[m])
                             * SizeOf(chunks, want[j])
                      r == SharedOf(chunks, kb.query, want[j]) * SharedOf(chunks, kb.query, want[j])
                             * SizeOf(chunks, want[m])
                  IN  l > r => m < j

\* two hits with exactly equal scores, returned against their storage order
C15_Witness ==
    /\ kb.pc = "returned" /\ kb.k = 2 /\ Len(kb.hits) = 2 /\ Len(chunks) = 3
    /\ \E x \in 1..Len(chunks) : \E y \in 1..Len(chunks) :
          /\ x < y
          /\ HitRows(kb.hits) = TableRows(chunks, <<y, x>>)
          /\ SharedOf(chunks, kb.query, x) * SharedOf(chunks, kb.query, x) * SizeOf(chunks, y)
                = SharedOf(chunks, kb.query, y) * SharedOf(chunks, kb.query, y) * SizeOf(chunks, x)

\* C16: no hit is a chunk without a token of the query, also when fewer than
\* k chunks qualify, and a query without tokens returns the empty list as an
\* ordinary result, without reading the store.
C16_NoZeroOverlap ==
    kb.pc \in {"returned", "built"} =>
        /\ \A m \in 1..Len(kb.hits) :
              set_of(tokenize(kb.hits[m].chunk)) \cap set_of(tokenize(kb.query)) # {}
        /\ tokenize(kb.query) = << >> => (kb.hits = << >> /\ rows = << >>)

C16_Witness ==
    /\ kb.pc = "returned" /\ kb.k = DefaultK
    /\ Len(chunks) = 3 /\ Len(kb.hits) = 2
    /\ \E x \in 1..Len(chunks) :
          set_of(tokenize(chunks[x].chunk)) \cap set_of(tokenize(kb.query)) = {}

\* the pieces of a context that open an entry, and the piece two places on
EntriesOf(context) ==
    SelectSeq([m \in 1..Len(context) |-> [at |-> m, piece |-> context[m]]],
              LAMBDA e : e.piece.kind = "[i] url")

\* C17: build_context returns the empty string exactly when search returns
\* no hit; otherwise the header line and then one entry per hit, numbered
\* 1..n in the order of the hits, each with the hit's URL and, on the next
\* line, its chunk text.
C17_ContextFormat ==
    kb.pc = "built" =>
        LET hits == search(chunks, kb.query, kb.k)
            es == EntriesOf(kb.context)
        IN  /\ kb.context = << >> <=> hits = << >>
            /\ hits # << >> =>
                  /\ kb.context[1] = Header
                  /\ Len(es) = Len(hits)
                  /\ Len(SelectSeq(kb.context, LAMBDA c : c.kind = "chunk")) = Len(hits)
                  /\ \A m \in 1..Len(es) :
                        /\ es[m].piece.n = m
                        /\ es[m].piece.url = hits[m].url
                        /\ kb.context[es[m].at + 1] = NL
                        /\ kb.context[es[m].at + 2].kind = "chunk"
                        /\ kb.context[es[m].at + 2].chunk = hits[m].chunk

C17_Witness ==
    /\ kb.pc = "built"
    /\ Len(kb.hits) = 2
    /\ kb.hits[1].url # kb.hits[2].url
    /\ Len(kb.context) = 13

\* the text occurs in the prompt, word for word
ContainsText(prompt, text) ==
    \E x \in 1..Len(prompt) : \E o \in 0..(Len(prompt[x].text) - Len(text)) :
        SubSeq(prompt[x].text, o + 1, o + Len(text)) = text

\* C18 as stated: for every call of the chat collaborator, build_context was
\* called before it with the query of that turn, and the prompt it receives
\* carries the context returned (the chunk text of every hit).
C18_AsStated ==
    \A m \in 1..Len(completions) :
        LET query == cw[completions[m].worker].prompt
            hits == search(chunks, query, DefaultK)
        IN  /\ kb.pc = "built" /\ kb.query = query
            /\ \A x \in 1..Len(hits) : ContainsText(completions[m].prompt, hits[x].chunk)

\* C19 as stated: a ChatWorker whose run has ended after emitting busy(True)
\* has emitted busy(False) and finished, whether the completion call returned
\* or raised, and once its signals are delivered the input field and the send
\* button are enabled again.
C19_AsStated ==
    \A w \in 1..Len(cw) :
        (cw[w].pc \in {"returned", "raised"} /\ <<"busy", "True">> \in set_of(cw[w].emitted))
          => /\ <<"busy", "False">> \in set_of(cw[w].emitted)
             /\ \E x \in 1..Len(cw[w].emitted) : cw[w].emitted[x][1] = "finished"
             /\ (events = << >> /\ \A v \in 1..Len(cw) : cw[v].pc \in {"returned", "raised"})
                   => ~app.disabled
\* the chunk rows a store holds are those of its Documents, title included
StoreReplaced(d, c) ==
    \A u \in Urls :
        /\ ChunksOf(c, u) = RowsFor(d, u)
        /\ \A k \in 1..Len(ChunksOf(c, u)) : ChunksOf(c, u)[k].title = d[u].title

\* C20: every step that changes the committed store (the commit of a
\* completed ensure_index run) leaves the chunk rows of every URL exactly the rows
\* chunk_tokens(tokenize(content)) gives for the Document's content, in
\* order and under the Document's title; a URL without a Document has no
\* chunk rows.
C20_FullReplace ==
    [][(docs' # docs \/ chunks' # chunks) => StoreReplaced(docs', chunks')]_vars

\* two completed runs: the first stored the long text of a.htm in two chunks,
\* the second replaced them by the one chunk of the changed text
C20_Witness ==
    /\ AllIdle
    /\ Len(hist) = 2
    /\ hist[1].result = "ok" /\ hist[2].result = "ok"
    /\ Len(ChunksOf(hist[1].chunks, UrlA)) = 2
    /\ ChunksOf(hist[1].chunks, UrlA)[1].chunk # ChunksOf(hist[1].chunks, UrlA)[2].chunk
    /\ Len(ChunksOf(chunks, UrlA)) = 1
    /\ chunks = hist[2].chunks
    /\ docs[UrlA].content # hist[1].docs[UrlA].content

\* a ChatWorker is in flight from its start in send_message until its
\* finished signal is handled by on_bot_reply (a worker whose run ended by an
\* exception is not)
InFlight(w) ==
    /\ w <= Len(cw)
    /\ \/ cw[w].pc \notin {"returned", "raised"}
       \/ \E x \in 1..Len(events) : events[x].worker = w /\ events[x].signal = "finished"

\* C21 as stated: at most one ChatWorker is in flight at any time, and it is
\* the one current_worker names: no send_message starts a second worker or
\* overwrites current_worker while a worker is in flight.
C21_AsStated ==
    /\ Cardinality({ w \in WorkerIds : InFlight(w) }) <= 1
    /\ \A w \in WorkerIds : InFlight(w) => app.current_worker = w

\* C22 as stated: when on_bot_reply handles the finished signal of a worker,
\* the reply is appended to the chat that was active when that worker's
\* send_message ran, and the history file then holds that chat with the reply.
C22_AsStated ==
    [][(events # << >> /\ Head(events).signal = "finished" /\ events' = Tail(events))
         => LET w == Head(events).worker
                c == cw[w].sent_in
                bot == [role |-> "bot", content |-> <<Head(events).arg>>, file |-> ""]
            IN  /\ app'.objs[c].messages = Append(app.objs[c].messages, bot)
                /\ \E x \in 1..Len(app'.saved) :
                      /\ app'.saved[x].id = c
                      /\ app'.saved[x].messages = app'.objs[c].messages]_vars

====
